---- MODULE Spec2Model ----
(***************************************************************************)
(* The user activity lifecycle of ovu-ulm: the users table's status        *)
(* columns, the user_activity_history ledger, the scheduled_user_actions   *)
(* table, the operations of UserStatusService and the periodic sweep of    *)
(* app/core/scheduler.py.                                                  *)
(*                                                                         *)
(* Spec     runs every service operation and every sweep as one            *)
(*          transaction at a time (serial execution).                      *)
(* SpecRoutes is Spec without create_user_activation, which no route calls.*)
(* SpecRace lets two sessions run the read part and the commit of an       *)
(*          operation separately, among the serial operations of other     *)
(*          requests, as the code (no row lock, no SELECT ... FOR UPDATE)  *)
(*          allows under concurrent requests.                              *)
(* SpecSweeper is the process of main.py: the scheduler starts, its job     *)
(*          fires and a sweep runs one action at a time among the requests,*)
(*          with the store failing at any await of an execution.           *)
(***************************************************************************)
EXTENDS Integers, Sequences, FiniteSets, TLC

\* ---------------------------------------------------------------- bounds
MaxTime == 2        \* the clock runs over 0..MaxTime
MaxHistory == 3     \* rows of user_activity_history
MaxActions == 2     \* rows of scheduled_user_actions
MaxRaceHistory == 4 \* rows of user_activity_history, sessions interleaved

\* ---------------------------------------------------------------- values
UserIds == {1, 2}                \* users.id, in the order create_user assigns them
RequestIds == UserIds \cup {0}   \* the user_id of a request; no user has id 0
Actors == {100}                  \* performed_by_id, the caller's identity
Reasons == {"contract ended"}    \* reason texts
None == -1                       \* NULL in a timestamp or id column
NoneText == "None"               \* NULL in a text column

\* schemas/user_activity.py: UserStatus, ActionType, ScheduledActionStatus
ACTIVE == "active"
SCHEDULED_DEACTIVATION == "scheduled_deactivation"
INACTIVE == "inactive"

ACTIVATED == "activated"
DEACTIVATED_IMMEDIATE == "deactivated_immediate"
DEACTIVATED_SCHEDULED == "deactivated_scheduled"
SCHEDULE_CANCELLED == "schedule_cancelled"
AUTO_DEACTIVATED == "auto_deactivated"
REACTIVATED == "reactivated"

PENDING == "pending"
EXECUTED == "executed"
CANCELLED == "cancelled"
FAILED == "failed"

Times == 0..MaxTime

VARIABLES
    now,        \* datetime.now(timezone.utc)
    users,      \* table users: id -> row (the status columns)
    history,    \* table user_activity_history: the sequence of rows, id = index
    actions,    \* table scheduled_user_actions: the sequence of rows, id = index
    txn,        \* SpecRace: per session, the operation in flight and what it read
    scheduler   \* scheduler.py: the scheduler handle and the running sweeps

vars == <<now, users, history, actions, txn, scheduler>>

\* The database as one value: what a transaction reads and what it commits.
DB == [users |-> users, history |-> history, actions |-> actions]

\* ---------------------------------------------------------------- rows
\* models/user.py: a row as users.py create_user inserts it.
User(joined) ==
    [status |-> ACTIVE,
     current_joined_at |-> joined,
     current_left_at |-> None,
     scheduled_deactivation_at |-> None,
     scheduled_deactivation_reason |-> NoneText,
     scheduled_deactivation_by_id |-> None]

\* models/user_activity.py: UserActivityHistory(...); a column the constructor
\* call does not name is NULL.
UserActivityHistory(user_id, joined_at, left_at, scheduled_left_at, actual_left_at, action_type, performed_by_id, reason) ==
    [user_id |-> user_id,
     joined_at |-> joined_at,
     left_at |-> left_at,
     scheduled_left_at |-> scheduled_left_at,
     actual_left_at |-> actual_left_at,
     action_type |-> action_type,
     performed_by_id |-> performed_by_id,
     reason |-> reason]

\* models/user_activity.py: ScheduledUserAction(...).
ScheduledUserAction(user_id, scheduled_for, reason, created_by_id) ==
    [user_id |-> user_id,
     action_type |-> "deactivate",
     scheduled_for |-> scheduled_for,
     reason |-> reason,
     created_by_id |-> created_by_id,
     status |-> PENDING,
     executed_at |-> None,
     error_message |-> NoneText]

\* ---------------------------------------------------------------- queries
\* select(User).where(User.id == user_id) ... scalar_one_or_none()
UserExists(db, user_id) == user_id \in DOMAIN db.users

\* Mutant (C29): the select without its condition on user_id.
PendingActionsOf_AnyUser(db, user_id) ==
    {a \in DOMAIN db.actions :
        /\ db.actions[a].status = PENDING
        /\ db.actions[a].action_type = "deactivate"}

\* select(ScheduledUserAction).where(user_id == ..., status == PENDING,
\* action_type == 'deactivate'): the ids of the rows.
PendingActionsOf(db, user_id) ==
    {a \in DOMAIN db.actions :
        /\ db.actions[a].user_id = user_id
        /\ db.actions[a].status = PENDING
        /\ db.actions[a].action_type = "deactivate"}

\* select(UserActivityHistory).where(user_id == ..., left_at.is_(None)): the ids.
OpenPeriodsOf(db, user_id) ==
    {h \in DOMAIN db.history :
        /\ db.history[h].user_id = user_id
        /\ db.history[h].left_at = None}

\* Mutant (C28): the query without its condition on scheduled_for.
get_overdue_actions_AnyTime(db, t) ==
    {a \in DOMAIN db.actions : db.actions[a].status = PENDING}

\* get_overdue_actions: status == PENDING and scheduled_for <= now.
get_overdue_actions(db, t) ==
    {a \in DOMAIN db.actions :
        /\ db.actions[a].status = PENDING
        /\ db.actions[a].scheduled_for <= t}

\* models/user_activity.py ScheduledUserAction.is_overdue, on the row `action`
\* when datetime.now() is t.
is_overdue(action, t) ==
    IF action.status # PENDING THEN FALSE
    ELSE t > action.scheduled_for

\* get_system_activity_stats, lines 432-439: the overdue_actions count.
overdue_actions_count(db, t) ==
    Cardinality({a \in DOMAIN db.actions :
                    /\ db.actions[a].status = PENDING
                    /\ db.actions[a].scheduled_for <= t})

\* ---------------------------------------------------------------- writes
\* for action in pending_actions: action.status = CANCELLED
CancelActions(acts, ids) ==
    [a \in DOMAIN acts |->
        IF a \in ids THEN [acts[a] EXCEPT !.status = CANCELLED] ELSE acts[a]]

\* current_period.left_at = now; current_period.actual_left_at = now
ClosePeriods(hist, ids, t) ==
    [h \in DOMAIN hist |->
        IF h \in ids
        THEN [hist[h] EXCEPT !.left_at = t, !.actual_left_at = t]
        ELSE hist[h]]

\* user.status = INACTIVE; current_left_at = now; the scheduling columns cleared
DeactivatedUser(row, t) ==
    [row EXCEPT !.status = INACTIVE,
                !.current_left_at = t,
                !.scheduled_deactivation_at = None,
                !.scheduled_deactivation_reason = NoneText,
                !.scheduled_deactivation_by_id = None]

\* The outcome of one call: the database it leaves and what the caller gets.
Outcome(db, result) == [db |-> db, result |-> result]

\* ---------------------------------------------------------------- operations
\* Results: "ok" (the call returns), "404" and "400" (HTTPException),
\* "MultipleResultsFound" (scalar_one_or_none met more than one row and raised;
\* the session is never committed), "True" / "False" (what
\* execute_scheduled_deactivation returns).

\* UserStatusService.create_user_activation. It calls datetime.now() twice:
\* t is what line 34 gets, t2 what line 43 gets.
create_user_activation(db, user_id, performed_by_id, reason, t, t2) ==
    IF ~UserExists(db, user_id) THEN Outcome(db, "404")
    ELSE Outcome(
        [db EXCEPT
            !.users[user_id] =
                [@ EXCEPT !.status = ACTIVE,
                          !.current_joined_at = t,
                          !.current_left_at = None,
                          !.scheduled_deactivation_at = None,
                          !.scheduled_deactivation_reason = NoneText,
                          !.scheduled_deactivation_by_id = None],
            !.history = Append(@, UserActivityHistory(
                user_id, t2, None, None, None, ACTIVATED, performed_by_id, reason))],
        "ok")

\* Mutant (C22): the new row's joined_at and left_at arguments swapped.
deactivate_user_immediately_SwappedPeriod(db, user_id, performed_by_id, reason, t) ==
    IF ~UserExists(db, user_id) THEN Outcome(db, "404")
    ELSE IF db.users[user_id].status = INACTIVE THEN Outcome(db, "400")
    ELSE
        LET user == db.users[user_id]
            pending_actions == {a \in DOMAIN db.actions :
                                   /\ db.actions[a].user_id = user_id
                                   /\ db.actions[a].status = PENDING}
            open == OpenPeriodsOf(db, user_id)
        IN  IF Cardinality(open) > 1 THEN Outcome(db, "MultipleResultsFound")
            ELSE Outcome(
                [users |-> [db.users EXCEPT ![user_id] = DeactivatedUser(@, t)],
                 actions |-> CancelActions(db.actions, pending_actions),
                 history |-> Append(
                     ClosePeriods(db.history, open, t),
                     UserActivityHistory(
                         user_id, t, user.current_joined_at, None, t,
                         DEACTIVATED_IMMEDIATE, performed_by_id, reason))],
                "ok")

\* UserStatusService.deactivate_user_immediately
deactivate_user_immediately(db, user_id, performed_by_id, reason, t) ==
    IF ~UserExists(db, user_id) THEN Outcome(db, "404")
    ELSE IF db.users[user_id].status = INACTIVE THEN Outcome(db, "400")
    ELSE
        LET user == db.users[user_id]
            \* status == PENDING, any action_type
            pending_actions == {a \in DOMAIN db.actions :
                                   /\ db.actions[a].user_id = user_id
                                   /\ db.actions[a].status = PENDING}
            open == OpenPeriodsOf(db, user_id)
        IN  IF Cardinality(open) > 1 THEN Outcome(db, "MultipleResultsFound")
            ELSE Outcome(
                [users |-> [db.users EXCEPT ![user_id] = DeactivatedUser(@, t)],
                 actions |-> CancelActions(db.actions, pending_actions),
                 history |-> Append(
                     ClosePeriods(db.history, open, t),
                     UserActivityHistory(
                         user_id, user.current_joined_at, t, None, t,
                         DEACTIVATED_IMMEDIATE, performed_by_id, reason))],
                "ok")

\* Mutant (C16): the select of the existing schedules returns no row.
schedule_read_NoExisting(db, user_id) ==
    [user |-> db.users[user_id],
     existing_schedules |-> {}]

\* schedule_user_deactivation, lines 124-143: what the operation reads.
schedule_read(db, user_id) ==
    [user |-> db.users[user_id],
     existing_schedules |-> PendingActionsOf(db, user_id)]

\* Mutant (C5): the schedule does not cancel the pending actions it found.
schedule_write_KeepsPending(db, rd, user_id, scheduled_for, performed_by_id, reason) ==
    [users |-> [db.users EXCEPT ![user_id] =
                   [@ EXCEPT !.status = SCHEDULED_DEACTIVATION,
                             !.scheduled_deactivation_at = scheduled_for,
                             !.scheduled_deactivation_reason = reason,
                             !.scheduled_deactivation_by_id = performed_by_id]],
     actions |-> Append(
         db.actions,
         ScheduledUserAction(user_id, scheduled_for, reason, performed_by_id)),
     history |-> Append(db.history, UserActivityHistory(
         user_id, rd.user.current_joined_at, None, scheduled_for, None,
         DEACTIVATED_SCHEDULED, performed_by_id, reason))]

\* schedule_user_deactivation, lines 144-175: what it writes, given what it read.
schedule_write(db, rd, user_id, scheduled_for, performed_by_id, reason) ==
    [users |-> [db.users EXCEPT ![user_id] =
                   [@ EXCEPT !.status = SCHEDULED_DEACTIVATION,
                             !.scheduled_deactivation_at = scheduled_for,
                             !.scheduled_deactivation_reason = reason,
                             !.scheduled_deactivation_by_id = performed_by_id]],
     actions |-> Append(
         CancelActions(db.actions, rd.existing_schedules),
         ScheduledUserAction(user_id, scheduled_for, reason, performed_by_id)),
     history |-> Append(db.history, UserActivityHistory(
         user_id, rd.user.current_joined_at, None, scheduled_for, None,
         DEACTIVATED_SCHEDULED, performed_by_id, reason))]

\* Mutant (C17): the time check written with < : a schedule for the current
\* instant passes.
schedule_check_Strict(db, user_id, scheduled_for, t) ==
    IF ~UserExists(db, user_id) THEN "404"
    ELSE IF db.users[user_id].status = INACTIVE THEN "400"
    ELSE IF scheduled_for < t THEN "400"
    ELSE "ok"

\* schedule_user_deactivation, lines 127-134: the checks; "ok" when all pass.
schedule_check(db, user_id, scheduled_for, t) ==
    IF ~UserExists(db, user_id) THEN "404"
    ELSE IF db.users[user_id].status = INACTIVE THEN "400"
    ELSE IF scheduled_for <= t THEN "400"
    ELSE "ok"

\* UserStatusService.schedule_user_deactivation
schedule_user_deactivation(db, user_id, scheduled_for, performed_by_id, reason, t) ==
    IF schedule_check(db, user_id, scheduled_for, t) # "ok"
    THEN Outcome(db, schedule_check(db, user_id, scheduled_for, t))
    ELSE Outcome(
        schedule_write(db, schedule_read(db, user_id), user_id, scheduled_for,
                       performed_by_id, reason),
        "ok")

\* cancel_scheduled_deactivation, lines 187-203: what the operation reads.
cancel_read(db, user_id) ==
    [user |-> db.users[user_id],
     pending_actions |-> PendingActionsOf(db, user_id)]

\* Mutant (C15): the cancel leaves the pending actions it found pending.
cancel_write_KeepsPending(db, rd, user_id, performed_by_id, reason) ==
    [users |-> [db.users EXCEPT ![user_id] =
                   [@ EXCEPT !.status = ACTIVE,
                             !.scheduled_deactivation_at = None,
                             !.scheduled_deactivation_reason = NoneText,
                             !.scheduled_deactivation_by_id = None]],
     actions |-> db.actions,
     history |-> Append(db.history, UserActivityHistory(
         user_id, rd.user.current_joined_at, None, None, None,
         SCHEDULE_CANCELLED, performed_by_id, reason))]

\* cancel_scheduled_deactivation, lines 205-223: what it writes.
cancel_write(db, rd, user_id, performed_by_id, reason) ==
    [users |-> [db.users EXCEPT ![user_id] =
                   [@ EXCEPT !.status = ACTIVE,
                             !.scheduled_deactivation_at = None,
                             !.scheduled_deactivation_reason = NoneText,
                             !.scheduled_deactivation_by_id = None]],
     actions |-> CancelActions(db.actions, rd.pending_actions),
     history |-> Append(db.history, UserActivityHistory(
         user_id, rd.user.current_joined_at, None, None, None,
         SCHEDULE_CANCELLED, performed_by_id, reason))]

\* Mutant (C10): the cancel does not check the user's status.
cancel_check_AnyStatus(db, user_id) ==
    IF ~UserExists(db, user_id) THEN "404" ELSE "ok"

\* cancel_scheduled_deactivation, lines 190-194: the checks.
cancel_check(db, user_id) ==
    IF ~UserExists(db, user_id) THEN "404"
    ELSE IF db.users[user_id].status # SCHEDULED_DEACTIVATION THEN "400"
    ELSE "ok"

\* UserStatusService.cancel_scheduled_deactivation
cancel_scheduled_deactivation(db, user_id, performed_by_id, reason) ==
    IF cancel_check(db, user_id) # "ok"
    THEN Outcome(db, cancel_check(db, user_id))
    ELSE Outcome(
        cancel_write(db, cancel_read(db, user_id), user_id, performed_by_id, reason),
        "ok")

\* reactivate_user, lines 235-237: what the operation reads.
reactivate_read(db, user_id) == [user |-> db.users[user_id]]

\* reactivate_user, lines 238-242: the checks.
reactivate_check(db, user_id) ==
    IF ~UserExists(db, user_id) THEN "404"
    ELSE IF db.users[user_id].status # INACTIVE THEN "400"
    ELSE "ok"

\* reactivate_user, lines 244-259: what it writes; t is its datetime.now().
\* The scheduling columns are not assigned.
reactivate_write(db, rd, user_id, performed_by_id, reason, t) ==
    [users |-> [db.users EXCEPT ![user_id] =
                   [@ EXCEPT !.status = ACTIVE,
                             !.current_joined_at = t,
                             !.current_left_at = None]],
     actions |-> db.actions,
     history |-> Append(db.history, UserActivityHistory(
         user_id, t, None, None, None, REACTIVATED, performed_by_id, reason))]

\* UserStatusService.reactivate_user
reactivate_user(db, user_id, performed_by_id, reason, t) ==
    IF reactivate_check(db, user_id) # "ok"
    THEN Outcome(db, reactivate_check(db, user_id))
    ELSE Outcome(
        reactivate_write(db, reactivate_read(db, user_id), user_id,
                         performed_by_id, reason, t),
        "ok")

\* execute_scheduled_deactivation, lines 282-307: what the operation reads once
\* the action is found pending and its user exists.
execute_read(db, scheduled_action_id) ==
    LET scheduled_action == db.actions[scheduled_action_id]
    IN  [scheduled_action |-> scheduled_action,
         user |-> db.users[scheduled_action.user_id],
         open |-> OpenPeriodsOf(db, scheduled_action.user_id)]

\* execute_scheduled_deactivation, lines 293-330: what it writes.
execute_write(db, rd, scheduled_action_id, t) ==
    LET user_id == rd.scheduled_action.user_id
    IN  [users |-> [db.users EXCEPT ![user_id] = DeactivatedUser(@, t)],
         history |-> Append(
             ClosePeriods(db.history, rd.open, t),
             UserActivityHistory(
                 user_id, rd.user.current_joined_at, t,
                 rd.scheduled_action.scheduled_for, t, AUTO_DEACTIVATED,
                 rd.scheduled_action.created_by_id, rd.scheduled_action.reason)),
         actions |-> [db.actions EXCEPT ![scheduled_action_id] =
                         [@ EXCEPT !.status = EXECUTED, !.executed_at = t]]]

\* str(e) of the MultipleResultsFound that scalar_one_or_none raises
MultipleRows == "Multiple rows were found when one or none was required"

\* scheduled_action.status = FAILED; error_message = ...; commit
MarkFailed(db, scheduled_action_id, message) ==
    [db EXCEPT !.actions[scheduled_action_id] =
        [@ EXCEPT !.status = FAILED, !.error_message = message]]

\* Mutant (C11): the except branch without its rollback: the commit that
\* records the failure also writes what the operation had assigned so far.
execute_scheduled_deactivation_NoRollback(db, scheduled_action_id, t) ==
    IF scheduled_action_id \notin DOMAIN db.actions THEN Outcome(db, "False")
    ELSE IF db.actions[scheduled_action_id].status # PENDING THEN Outcome(db, "False")
    ELSE
        LET rd == execute_read(db, scheduled_action_id)
            user_id == rd.scheduled_action.user_id
        IN  IF Cardinality(rd.open) > 1
            THEN Outcome(
                MarkFailed(
                    [db EXCEPT !.users[user_id] = DeactivatedUser(@, t)],
                    scheduled_action_id, MultipleRows),
                "False")
            ELSE Outcome(execute_write(db, rd, scheduled_action_id, t), "True")

\* UserStatusService.execute_scheduled_deactivation
execute_scheduled_deactivation(db, scheduled_action_id, t) ==
    IF scheduled_action_id \notin DOMAIN db.actions THEN Outcome(db, "False")
    ELSE IF db.actions[scheduled_action_id].status # PENDING THEN Outcome(db, "False")
    ELSE IF ~UserExists(db, db.actions[scheduled_action_id].user_id)
    THEN Outcome(MarkFailed(db, scheduled_action_id, "User not found"), "False")
    ELSE
        LET rd == execute_read(db, scheduled_action_id)
        IN  IF Cardinality(rd.open) > 1
            \* scalar_one_or_none raises; except: rollback, mark the action failed
            THEN Outcome(MarkFailed(db, scheduled_action_id, MultipleRows),
                         "False")
            ELSE Outcome(execute_write(db, rd, scheduled_action_id, t), "True")

\* The orders in which a query without ORDER BY may return the rows `ids`.
Orders(ids) ==
    {q \in [1..Cardinality(ids) -> ids] :
        \A i, j \in 1..Cardinality(ids) : i # j => q[i] # q[j]}

\* get_user_activity_history: the rows of the user ORDER BY joined_at DESC,
\* cut to `limit` rows when limit is truthy (0 stands for None and for 0).
\* The order among rows with equal joined_at is the store's choice, so the
\* call has a set of possible results, each a sequence of row ids.
get_user_activity_history(db, user_id, limit) ==
    LET rows == {h \in DOMAIN db.history : db.history[h].user_id = user_id}
        ordered == {q \in Orders(rows) :
                       \A i, j \in DOMAIN q :
                           i < j => db.history[q[i]].joined_at
                                      >= db.history[q[j]].joined_at}
    IN  {IF limit # 0 /\ limit < Len(q) THEN SubSeq(q, 1, limit) ELSE q :
            q \in ordered}

\* Mutant (C13): the loop ends at the first action whose execution fails.
RECURSIVE sweep_loop_StopsOnFailure(_, _, _)
sweep_loop_StopsOnFailure(db, overdue_actions, t) ==
    IF overdue_actions = <<>> THEN db
    ELSE LET out == execute_scheduled_deactivation(db, Head(overdue_actions), t)
         IN  IF out.result = "False" THEN out.db
             ELSE sweep_loop_StopsOnFailure(out.db, Tail(overdue_actions), t)

\* check_and_execute_scheduled_deactivations, lines 37-49: the loop over
\* overdue_actions, each executed on the database the one before it left.
RECURSIVE sweep_loop(_, _, _)
sweep_loop(db, overdue_actions, t) ==
    IF overdue_actions = <<>> THEN db
    ELSE sweep_loop(
            execute_scheduled_deactivation(db, Head(overdue_actions), t).db,
            Tail(overdue_actions), t)

\* The awaits of execute_scheduled_deactivation at which the store may fail
\* (connection lost, transaction aborted): the selects of lines 273, 284 and
\* 306 and the commit of line 330; "none" is a run without failure.
StoreFaults == {"none", "select_action", "select_user", "select_period", "commit"}

\* str(e) of the store's exception
StoreError == "connection was closed in the middle of operation"

\* execute_scheduled_deactivation when the store fails at the await `fault`.
\* Every exception is caught at line 333. If the first select failed,
\* scheduled_action was never bound and line 335 raises out of the handler;
\* otherwise the handler rolls back, marks the action failed and commits,
\* which succeeds when the store `recovers` and raises when it does not.
\* "raise" is an exception that reaches the caller; nothing was committed.
execute_under_store_fault(db, scheduled_action_id, t, fault, recovers) ==
    IF fault = "none"
    THEN execute_scheduled_deactivation(db, scheduled_action_id, t)
    ELSE IF fault = "select_action" THEN Outcome(db, "raise")
    ELSE IF scheduled_action_id \notin DOMAIN db.actions THEN Outcome(db, "False")
    ELSE IF db.actions[scheduled_action_id].status # PENDING
    THEN Outcome(db, "False")
    ELSE IF /\ fault = "commit"
            /\ Cardinality(execute_read(db, scheduled_action_id).open) > 1
    \* scalar_one_or_none raises before the commit is reached
    THEN execute_scheduled_deactivation(db, scheduled_action_id, t)
    ELSE IF recovers
    THEN Outcome(MarkFailed(db, scheduled_action_id, StoreError), "False")
    ELSE Outcome(db, "raise")

\* ---------------------------------------------------------------- state machine
Sessions == {1, 2}
Idle == [op |-> "idle", pc |-> "idle"]

\* scheduler.py line 15: scheduler = None; no sweep is running; skipped tells
\* whether the last firing of the job was skipped. jobs is the number of jobs
\* of the instance the handle refers to, instances the number of
\* AsyncIOScheduler objects started and not shut down, last_call the last call
\* of start_scheduler or shutdown_scheduler that did not return early.
NoScheduler == [state |-> "None", sweeps |-> <<>>, skipped |-> FALSE, jobs |-> 0, instances |-> 0, last_call |-> "none"]

Init ==
    /\ now = 0
    /\ users = <<>>
    /\ history = <<>>
    /\ actions = <<>>
    /\ txn = [s \in Sessions |-> Idle]
    /\ scheduler = NoScheduler

\* The call returns (or raises) and the session commits (or rolls back): the
\* tables become out.db, within the model's bounds on the two growing tables.
Return(out) ==
    /\ Len(out.db.history) <= MaxHistory
    /\ Len(out.db.actions) <= MaxActions
    /\ users' = out.db.users
    /\ history' = out.db.history
    /\ actions' = out.db.actions

\* The clock advances.
Tick ==
    /\ now < MaxTime
    /\ now' = now + 1
    /\ UNCHANGED <<users, history, actions, txn, scheduler>>

\* users.py create_user: a new row, status 'active', no ledger row.
create_user ==
    /\ \E user_id \in UserIds :
        /\ user_id \notin DOMAIN users
        /\ \A v \in UserIds : v < user_id => v \in DOMAIN users
        /\ users' = (user_id :> User(now)) @@ users
    /\ UNCHANGED <<now, history, actions, txn, scheduler>>

\* The instants a second reading of the clock may give when the first gave t:
\* the same one, or the next when the clock has advanced between the two.
LaterReadings(t) == {t2 \in Times : t <= t2 /\ t2 <= t + 1}

\* create_user_activation: the clock is read at line 34 and again at line 43,
\* and is left where the second reading found it.
CreateUserActivation ==
    /\ \E user_id \in RequestIds, performed_by_id \in Actors, reason \in Reasons :
        \E t2 \in LaterReadings(now) :
            /\ Return(create_user_activation(
                          DB, user_id, performed_by_id, reason, now, t2))
            /\ now' = t2
    /\ UNCHANGED <<txn, scheduler>>

DeactivateUserImmediately ==
    /\ \E user_id \in RequestIds, performed_by_id \in Actors, reason \in Reasons :
        Return(deactivate_user_immediately(DB, user_id, performed_by_id, reason, now))
    /\ UNCHANGED <<now, txn, scheduler>>

ScheduleUserDeactivation ==
    /\ \E user_id \in RequestIds, scheduled_for \in Times,
          performed_by_id \in Actors, reason \in Reasons :
        Return(schedule_user_deactivation(DB, user_id, scheduled_for,
                                          performed_by_id, reason, now))
    /\ UNCHANGED <<now, txn, scheduler>>

CancelScheduledDeactivation ==
    /\ \E user_id \in RequestIds, performed_by_id \in Actors, reason \in Reasons :
        Return(cancel_scheduled_deactivation(DB, user_id, performed_by_id, reason))
    /\ UNCHANGED <<now, txn, scheduler>>

ReactivateUser ==
    /\ \E user_id \in RequestIds, performed_by_id \in Actors, reason \in Reasons :
        Return(reactivate_user(DB, user_id, performed_by_id, reason, now))
    /\ UNCHANGED <<now, txn, scheduler>>

\* scheduler.py check_and_execute_scheduled_deactivations: one whole sweep.
CheckAndExecuteScheduledDeactivations ==
    /\ \E overdue_actions \in Orders(get_overdue_actions(DB, now)) :
        Return(Outcome(sweep_loop(DB, overdue_actions, now), "ok"))
    /\ UNCHANGED <<now, txn, scheduler>>

\* ---------------------------------------------------------------- two sessions
\* A request handler and the sweep are coroutines on one event loop, each with
\* its own AsyncSession; every await lets the other run. No query of the service
\* locks a row (no with_for_update), and autoflush is off, so a session writes
\* nothing before its commit(): an operation is its reads, then later one
\* commit that writes what it computed from those reads.
\* txn[s].pc is "read" between the two, "committed" after.

\* The commit of an operation that was in flight: as Return, within the bound
\* on the ledger of a run with interleaved sessions.
Land(out) ==
    /\ Len(out.db.history) <= MaxRaceHistory
    /\ Len(out.db.actions) <= MaxActions
    /\ users' = out.db.users
    /\ history' = out.db.history
    /\ actions' = out.db.actions

\* schedule_user_deactivation up to line 143: the checks pass, the rows are read.
BeginSchedule(s) ==
    /\ txn[s] = Idle
    /\ \E user_id \in RequestIds, scheduled_for \in Times,
          performed_by_id \in Actors, reason \in Reasons :
        /\ schedule_check(DB, user_id, scheduled_for, now) = "ok"
        /\ txn' = [txn EXCEPT ![s] =
                [op |-> "schedule", pc |-> "read", user_id |-> user_id,
                 scheduled_for |-> scheduled_for,
                 performed_by_id |-> performed_by_id, reason |-> reason,
                 rd |-> schedule_read(DB, user_id)]]
    /\ UNCHANGED <<now, users, history, actions, scheduler>>

\* schedule_user_deactivation line 175: commit.
CommitSchedule(s) ==
    /\ txn[s] # Idle
    /\ txn[s].op = "schedule" /\ txn[s].pc = "read"
    /\ Land(Outcome(schedule_write(DB, txn[s].rd, txn[s].user_id,
                                   txn[s].scheduled_for, txn[s].performed_by_id,
                                   txn[s].reason), "ok"))
    /\ txn' = [txn EXCEPT ![s].pc = "committed"]
    /\ UNCHANGED <<now, scheduler>>

\* cancel_scheduled_deactivation up to line 203.
BeginCancel(s) ==
    /\ txn[s] = Idle
    /\ \E user_id \in RequestIds, performed_by_id \in Actors, reason \in Reasons :
        /\ cancel_check(DB, user_id) = "ok"
        /\ txn' = [txn EXCEPT ![s] =
                [op |-> "cancel", pc |-> "read", user_id |-> user_id,
                 performed_by_id |-> performed_by_id, reason |-> reason,
                 rd |-> cancel_read(DB, user_id)]]
    /\ UNCHANGED <<now, users, history, actions, scheduler>>

\* cancel_scheduled_deactivation line 223: commit.
CommitCancel(s) ==
    /\ txn[s] # Idle
    /\ txn[s].op = "cancel" /\ txn[s].pc = "read"
    /\ Land(Outcome(cancel_write(DB, txn[s].rd, txn[s].user_id,
                                 txn[s].performed_by_id, txn[s].reason), "ok"))
    /\ txn' = [txn EXCEPT ![s].pc = "committed"]
    /\ UNCHANGED <<now, scheduler>>

\* The sweep's execute_scheduled_deactivation on an action of its overdue list,
\* up to line 307: the action is pending, its user exists, one open period at most.
BeginExecute(s) ==
    /\ txn[s] = Idle
    /\ \E id \in get_overdue_actions(DB, now) :
        /\ UserExists(DB, actions[id].user_id)
        /\ Cardinality(execute_read(DB, id).open) <= 1
        /\ txn' = [txn EXCEPT ![s] =
                [op |-> "execute", pc |-> "read", user_id |-> actions[id].user_id,
                 scheduled_action_id |-> id, now |-> now,
                 rd |-> execute_read(DB, id)]]
    /\ UNCHANGED <<now, users, history, actions, scheduler>>

\* execute_scheduled_deactivation line 330: commit.
CommitExecute(s) ==
    /\ txn[s] # Idle
    /\ txn[s].op = "execute" /\ txn[s].pc = "read"
    /\ Land(Outcome(execute_write(DB, txn[s].rd, txn[s].scheduled_action_id,
                                  txn[s].now), "True"))
    /\ txn' = [txn EXCEPT ![s].pc = "committed"]
    /\ UNCHANGED <<now, scheduler>>

\* reactivate_user up to line 245: the user is read inactive, now is taken.
BeginReactivate(s) ==
    /\ txn[s] = Idle
    /\ \E user_id \in RequestIds, performed_by_id \in Actors, reason \in Reasons :
        /\ reactivate_check(DB, user_id) = "ok"
        /\ txn' = [txn EXCEPT ![s] =
                [op |-> "reactivate", pc |-> "read", user_id |-> user_id,
                 performed_by_id |-> performed_by_id, reason |-> reason,
                 now |-> now, rd |-> reactivate_read(DB, user_id)]]
    /\ UNCHANGED <<now, users, history, actions, scheduler>>

\* reactivate_user line 259: commit.
CommitReactivate(s) ==
    /\ txn[s] # Idle
    /\ txn[s].op = "reactivate" /\ txn[s].pc = "read"
    /\ Land(Outcome(reactivate_write(DB, txn[s].rd, txn[s].user_id,
                                     txn[s].performed_by_id, txn[s].reason,
                                     txn[s].now), "ok"))
    /\ txn' = [txn EXCEPT ![s].pc = "committed"]
    /\ UNCHANGED <<now, scheduler>>

\* What the HTTP routes (users.py, user_status.py) and the scheduler call.
RoutesNext ==
    \/ Tick
    \/ create_user
    \/ DeactivateUserImmediately
    \/ ScheduleUserDeactivation
    \/ CancelScheduledDeactivation
    \/ ReactivateUser
    \/ CheckAndExecuteScheduledDeactivations

\* Every operation of the service, create_user_activation (which no route
\* calls) included.
Next ==
    \/ RoutesNext
    \/ CreateUserActivation

Spec == Init /\ [][Next]_vars

SpecRoutes == Init /\ [][RoutesNext]_vars

RaceNext ==
    \/ RoutesNext
    \/ \E s \in Sessions : BeginSchedule(s)
    \/ \E s \in Sessions : CommitSchedule(s)
    \/ \E s \in Sessions : BeginCancel(s)
    \/ \E s \in Sessions : CommitCancel(s)
    \/ \E s \in Sessions : BeginExecute(s)
    \/ \E s \in Sessions : CommitExecute(s)
    \/ \E s \in Sessions : BeginReactivate(s)
    \/ \E s \in Sessions : CommitReactivate(s)

SpecRace == Init /\ [][RaceNext]_vars

\* ---------------------------------------------------------------- the scheduler
\* job_defaults of start_scheduler: 'max_instances': 1
max_instances == 1

\* Mutant (C30): start_scheduler without the guard of lines 63-65: every call
\* creates and starts another AsyncIOScheduler with its own job.
start_scheduler_NoGuard(sch) ==
    [state |-> "running", sweeps |-> sch.sweeps, skipped |-> sch.skipped, jobs |-> 1, instances |-> sch.instances + 1, last_call |-> "start"]

\* start_scheduler, lines 57-92: with a handle already set the call returns
\* it (lines 63-65); otherwise it creates an AsyncIOScheduler, adds the one
\* job 'check_scheduled_deactivations' and starts the scheduler.
start_scheduler(sch) ==
    IF sch.state # "None"
    THEN sch
    ELSE [state |-> "running", sweeps |-> <<>>, skipped |-> FALSE, jobs |-> 1, instances |-> sch.instances + 1, last_call |-> "start"]

\* shutdown_scheduler, lines 95-108: without a handle the call returns (lines
\* 101-103); otherwise scheduler.shutdown(wait=True) and scheduler = None.
\* It is a plain (not async) function called on the event loop. A sweep in
\* flight is a coroutine of the same loop, suspended at an await: it cannot
\* run while the call runs, and scheduler.shutdown cancels it, so it executes
\* none of the actions left in its list.
shutdown_scheduler(sch) ==
    IF sch.state = "None"
    THEN sch
    ELSE [state |-> "None", sweeps |-> <<>>, skipped |-> FALSE, jobs |-> 0, instances |-> sch.instances - 1, last_call |-> "shutdown"]

\* get_scheduler_status, lines 119-143: running and the number of entries of
\* jobs; scheduler.running is true from start() to shutdown().
get_scheduler_status(sch) ==
    IF sch.state = "None"
    THEN [running |-> FALSE, jobs |-> 0]
    ELSE [running |-> sch.state = "running", jobs |-> sch.jobs]

\* main.py lifespan, startup (line 49): start_scheduler().
StartScheduler ==
    /\ scheduler' = start_scheduler(scheduler)
    /\ UNCHANGED <<now, users, history, actions, txn>>

\* main.py lifespan, shutdown (line 64): shutdown_scheduler().
ShutdownScheduler ==
    /\ scheduler' = shutdown_scheduler(scheduler)
    /\ UNCHANGED <<now, users, history, actions, txn>>

\* Mutant (C14): the job is started on every firing, however many instances
\* of it are running.
JobFires_NoInstanceCheck ==
    /\ scheduler.state = "running"
    /\ \E overdue_actions \in Orders(get_overdue_actions(DB, now)) :
           scheduler' = [scheduler EXCEPT
                            !.sweeps = Append(@, overdue_actions),
                            !.skipped = FALSE]
    /\ UNCHANGED <<now, users, history, actions, txn>>

\* The IntervalTrigger of the job fires. With max_instances instances of the
\* job running the run is skipped; otherwise a new instance of
\* check_and_execute_scheduled_deactivations starts and reads overdue_actions
\* (line 28).
JobFires ==
    /\ scheduler.state = "running"
    /\ IF Len(scheduler.sweeps) >= max_instances
       THEN scheduler' = [scheduler EXCEPT !.skipped = TRUE]
       ELSE \E overdue_actions \in Orders(get_overdue_actions(DB, now)) :
               scheduler' = [scheduler EXCEPT
                                !.sweeps = Append(@, overdue_actions),
                                !.skipped = FALSE]
    /\ UNCHANGED <<now, users, history, actions, txn>>

\* Lines 37-49: a running sweep executes the next action of its list; an
\* exception is logged and the loop continues.
SweepExecute ==
    /\ \E i \in DOMAIN scheduler.sweeps :
        /\ scheduler.sweeps[i] # <<>>
        /\ \E fault \in StoreFaults, recovers \in BOOLEAN :
            Return(execute_under_store_fault(
                       DB, Head(scheduler.sweeps[i]), now, fault, recovers))
        /\ scheduler' = [scheduler EXCEPT !.sweeps[i] = Tail(@)]
    /\ UNCHANGED <<now, txn>>

\* Lines 30-32 and 51: the sweep has no action left and returns.
SweepFinish ==
    /\ \E i \in DOMAIN scheduler.sweeps :
        /\ scheduler.sweeps[i] = <<>>
        /\ scheduler' = [scheduler EXCEPT !.sweeps =
               SubSeq(@, 1, i - 1) \o SubSeq(@, i + 1, Len(@))]
    /\ UNCHANGED <<now, users, history, actions, txn>>

\* main.py lifespan: requests are served, and the job fires, between the
\* startup and the shutdown.
Serving == scheduler.state = "running"

\* The process as main.py runs it: the requests of the routes, and the sweeps
\* started by the scheduler, one action at a time, among them.
SweeperNext ==
    \/ StartScheduler
    \/ Serving /\ Tick
    \/ Serving /\ create_user
    \/ Serving /\ DeactivateUserImmediately
    \/ Serving /\ ScheduleUserDeactivation
    \/ Serving /\ CancelScheduledDeactivation
    \/ Serving /\ ReactivateUser
    \/ JobFires
    \/ SweepExecute
    \/ SweepFinish
    \/ ShutdownScheduler

SpecSweeper == Init /\ [][SweeperNext]_vars

\* ---------------------------------------------------------------- claims
\* Helpers of the claims' formulas.
EntriesOf(hist, user_id, action_type) ==
    {h \in DOMAIN hist :
        hist[h].user_id = user_id /\ hist[h].action_type = action_type}

\* The ledger rows of hist that were not yet in the ledger old.
NewEntries(old, hist) == {h \in DOMAIN hist : h > Len(old)}

\* The last ledger row of the user, or 0.
LastEntryOf(user_id) ==
    IF \E h \in DOMAIN history : history[h].user_id = user_id
    THEN CHOOSE h \in DOMAIN history :
            /\ history[h].user_id = user_id
            /\ \A g \in DOMAIN history : history[g].user_id = user_id => g <= h
    ELSE 0

\* C1: after any sequence of Status Service operations, every user has at most
\* one activity-history entry whose left_at is null.
C1_AtMostOneOpenEntry ==
    \A u \in DOMAIN users : Cardinality(OpenPeriodsOf(DB, u)) <= 1

\* schedule_user_deactivation(U, T) created the pending action a and no other
\* operation on U has taken effect since: every operation that takes effect on
\* U appends a ledger row of U, and the last one is that schedule's row.
ScheduledAndUntouched(a) ==
    LET u == actions[a].user_id
        h == LastEntryOf(u)
    IN  /\ actions[a].status = PENDING
        /\ u \in DOMAIN users
        /\ users[u].status = SCHEDULED_DEACTIVATION
        /\ users[u].scheduled_deactivation_at = actions[a].scheduled_for
        /\ h # 0
        /\ history[h].action_type = DEACTIVATED_SCHEDULED
        /\ history[h].scheduled_left_at = actions[a].scheduled_for

\* C2: once schedule_user_deactivation(U, T) has succeeded and nothing else has
\* touched U, the first sweep at a time >= T leaves U inactive, marks the action
\* executed and adds exactly one auto_deactivated row with scheduled_left_at = T
\* and actual_left_at = the time of the sweep, whatever U's earlier history.
C2_FirstSweepExecutes ==
    \A a \in get_overdue_actions(DB, now) :
        \A overdue_actions \in Orders(get_overdue_actions(DB, now)) :
            ScheduledAndUntouched(a) =>
                LET u == actions[a].user_id
                    after == sweep_loop(DB, overdue_actions, now)
                    added == {h \in NewEntries(history, after.history) :
                                 /\ after.history[h].user_id = u
                                 /\ after.history[h].action_type = AUTO_DEACTIVATED}
                IN  /\ after.users[u].status = INACTIVE
                    /\ after.actions[a].status = EXECUTED
                    /\ Cardinality(added) = 1
                    /\ \A h \in added :
                        /\ after.history[h].scheduled_left_at = actions[a].scheduled_for
                        /\ after.history[h].actual_left_at = now

\* C3: wherever an existing user is active or scheduled_deactivation,
\* deactivate_user_immediately succeeds and leaves the user inactive with
\* current_left_at = now, the scheduling columns cleared, every pending action
\* of the user cancelled, the open period closed at now and one new
\* deactivated_immediate row with left_at = now.
C3_DeactivateSucceeds ==
    \A u \in DOMAIN users, performed_by_id \in Actors, reason \in Reasons :
        users[u].status \in {ACTIVE, SCHEDULED_DEACTIVATION} =>
            LET out == deactivate_user_immediately(DB, u, performed_by_id, reason, now)
                added == NewEntries(history, out.db.history)
            IN  /\ out.result = "ok"
                /\ out.db.users[u].status = INACTIVE
                /\ out.db.users[u].current_left_at = now
                /\ out.db.users[u].scheduled_deactivation_at = None
                /\ out.db.users[u].scheduled_deactivation_reason = NoneText
                /\ out.db.users[u].scheduled_deactivation_by_id = None
                /\ \A a \in DOMAIN actions :
                    (actions[a].user_id = u /\ actions[a].status = PENDING)
                        => out.db.actions[a].status = CANCELLED
                /\ \A h \in OpenPeriodsOf(DB, u) :
                    /\ out.db.history[h].left_at = now
                    /\ out.db.history[h].actual_left_at = now
                /\ Cardinality(added) = 1
                /\ \A h \in added :
                    /\ out.db.history[h].user_id = u
                    /\ out.db.history[h].action_type = DEACTIVATED_IMMEDIATE
                    /\ out.db.history[h].left_at = now

\* Session s has committed the operation op.
Committed(s, op) == txn[s].op = op /\ txn[s].pc = "committed"

\* C4: a cancel_scheduled_deactivation and the sweep's
\* execute_scheduled_deactivation that run concurrently on the same pending
\* action cannot both take effect: never have both committed on that action,
\* leaving a schedule_cancelled and an auto_deactivated row for it.
C4_CancelAndExecuteNotBoth ==
    \A s1, s2 \in Sessions :
        ~ /\ Committed(s1, "cancel")
          /\ Committed(s2, "execute")
          /\ txn[s2].scheduled_action_id \in txn[s1].rd.pending_actions
          /\ EntriesOf(history, txn[s1].user_id, SCHEDULE_CANCELLED) # {}
          /\ EntriesOf(history, txn[s1].user_id, AUTO_DEACTIVATED) # {}

\* C5: with the operations run one at a time, every user has at most one
\* pending deactivate action.
C5_AtMostOnePending ==
    \A u \in DOMAIN users : Cardinality(PendingActionsOf(DB, u)) <= 1

\* C5 witness: a second schedule_user_deactivation replaced a pending action:
\* the user has a cancelled and a pending action, and no cancel or deactivation
\* of the user is in the ledger.
C5_Witness ==
    \E u \in DOMAIN users, a1, a2 \in DOMAIN actions :
        /\ actions[a1].user_id = u /\ actions[a2].user_id = u
        /\ actions[a1].status = CANCELLED
        /\ actions[a2].status = PENDING
        /\ \A h \in DOMAIN history :
            history[h].user_id = u => history[h].action_type = DEACTIVATED_SCHEDULED

\* C6: two schedule_user_deactivation calls for one user that both read before
\* either commits leave at most one pending deactivate action once both have
\* committed.
C6_ConcurrentSchedulesOnePending ==
    \A s1, s2 \in Sessions :
        ( /\ s1 # s2
          /\ Committed(s1, "schedule")
          /\ Committed(s2, "schedule")
          /\ txn[s1].user_id = txn[s2].user_id )
        => Cardinality(PendingActionsOf(DB, txn[s1].user_id)) <= 1

\* C7: in every reachable state, concurrent requests included, a user's status
\* is scheduled_deactivation if and only if the user's scheduled_deactivation_at
\* is not null.
C7_ScheduledIffScheduledAt ==
    \A u \in DOMAIN users :
        users[u].status = SCHEDULED_DEACTIVATION
            <=> users[u].scheduled_deactivation_at # None

\* The auto_deactivated rows in the ledger hist.
AutoDeactivated(hist) ==
    {h \in DOMAIN hist : hist[h].action_type = AUTO_DEACTIVATED}

\* C8: calling execute_scheduled_deactivation twice on the same (pending, due)
\* action produces exactly one auto_deactivated ledger row: the second call
\* finds status != pending, returns False and writes nothing.
C8_ExecuteTwiceOneEntry ==
    \A a \in get_overdue_actions(DB, now), t2 \in Times :
        t2 >= now =>
            LET first == execute_scheduled_deactivation(DB, a, now)
                second == execute_scheduled_deactivation(first.db, a, t2)
            IN  /\ second.result = "False"
                /\ second.db = first.db
                /\ Cardinality(AutoDeactivated(second.db.history))
                     = Cardinality(AutoDeactivated(history)) + 1

\* C9: a scheduled action's status leaves pending only for executed, cancelled
\* or failed, and no step of any operation, concurrent requests included,
\* changes a status other than pending again.
C9_TerminalStatusNeverChanges ==
    [][\A a \in DOMAIN actions :
         /\ a \in DOMAIN actions'
         /\ actions'[a].status \in {PENDING, EXECUTED, CANCELLED, FAILED}
         /\ actions[a].status # PENDING => actions'[a].status = actions[a].status
      ]_vars

\* The tables after the call are the tables before it.
Rejected(out, codes) == out.result \in codes /\ out.db = DB

\* C10: deactivate_user_immediately, schedule_user_deactivation,
\* cancel_scheduled_deactivation and reactivate_user, called for a user that
\* does not exist or in a state that violates the precondition (already
\* inactive, not scheduled, not inactive, time not in the future), are rejected
\* and leave the user row, the ledger and the scheduled actions unchanged.
C10_RejectedCallsChangeNothing ==
    \A u \in RequestIds, performed_by_id \in Actors, reason \in Reasons :
        LET deact == deactivate_user_immediately(DB, u, performed_by_id, reason, now)
            cancel == cancel_scheduled_deactivation(DB, u, performed_by_id, reason)
            react == reactivate_user(DB, u, performed_by_id, reason, now)
        IN  /\ u \notin DOMAIN users =>
                /\ Rejected(deact, {"404"})
                /\ Rejected(cancel, {"404"})
                /\ Rejected(react, {"404"})
            /\ (u \in DOMAIN users /\ users[u].status = INACTIVE) =>
                Rejected(deact, {"400"})
            /\ (u \in DOMAIN users /\ users[u].status # SCHEDULED_DEACTIVATION) =>
                Rejected(cancel, {"400"})
            /\ (u \in DOMAIN users /\ users[u].status # INACTIVE) =>
                Rejected(react, {"400"})
            /\ \A scheduled_for \in Times :
                LET sched == schedule_user_deactivation(
                                 DB, u, scheduled_for, performed_by_id, reason, now)
                IN  /\ u \notin DOMAIN users => Rejected(sched, {"404"})
                    /\ (u \in DOMAIN users
                        /\ (users[u].status = INACTIVE \/ scheduled_for <= now))
                       => Rejected(sched, {"400"})

\* C10 witness: a state with an active user, an inactive user, a user id that
\* does not exist, a ledger and a scheduled action: each of the four
\* operations has a call that is rejected there.
C10_Witness ==
    /\ history # <<>>
    /\ actions # <<>>
    /\ \E u \in DOMAIN users : users[u].status = ACTIVE
    /\ \E u \in DOMAIN users :
        /\ users[u].status = INACTIVE
        /\ reactivate_user(DB, 0, 100, "contract ended", now).result = "404"
        /\ deactivate_user_immediately(DB, u, 100, "contract ended", now).result = "400"

\* The operation left the user rows and the ledger as they were, and of the
\* scheduled actions changed at most action a, to failed with a message.
OnlyMarkedFailed(out, a) ==
    /\ out.db.users = users
    /\ out.db.history = history
    /\ DOMAIN out.db.actions = DOMAIN actions
    /\ \A b \in DOMAIN actions :
        \/ out.db.actions[b] = actions[b]
        \/ /\ b = a
           /\ out.db.actions[b].status = FAILED
           /\ out.db.actions[b].error_message # actions[b].error_message
           /\ [out.db.actions[b] EXCEPT !.status = PENDING,
                                        !.error_message = actions[b].error_message]
                = actions[b]

\* C11: an operation that fails, also after it has assigned to the rows it
\* read (MultipleResultsFound from the open-period query, a failure of the
\* store at any await of the sweep's execution), persists no partial
\* combination: the user rows and the ledger are as before, and the only write
\* that may survive is execute_scheduled_deactivation's status = failed on its
\* action.
C11_FailureLeavesNoPartialWrite ==
    /\ \A u \in RequestIds, performed_by_id \in Actors, reason \in Reasons :
        LET deact == deactivate_user_immediately(DB, u, performed_by_id, reason, now)
            cancel == cancel_scheduled_deactivation(DB, u, performed_by_id, reason)
            react == reactivate_user(DB, u, performed_by_id, reason, now)
        IN  /\ deact.result # "ok" => deact.db = DB
            /\ cancel.result # "ok" => cancel.db = DB
            /\ react.result # "ok" => react.db = DB
            /\ \A scheduled_for \in Times :
                LET schedule == schedule_user_deactivation(
                                    DB, u, scheduled_for, performed_by_id, reason, now)
                IN  schedule.result # "ok" => schedule.db = DB
    /\ \A a \in DOMAIN actions, fault \in StoreFaults, recovers \in BOOLEAN :
        LET exec == execute_under_store_fault(DB, a, now, fault, recovers)
        IN  exec.result # "True" => OnlyMarkedFailed(exec, a)

\* C11 witness: a user who is not inactive has two open ledger rows and a
\* pending action that is due: both deactivate_user_immediately and the
\* sweep's execution fail there after assigning to the user row.
C11_Witness ==
    \E a \in get_overdue_actions(DB, now) :
        LET u == actions[a].user_id
        IN  /\ Cardinality(OpenPeriodsOf(DB, u)) > 1
            /\ deactivate_user_immediately(DB, u, 100, "contract ended", now).result
                 = "MultipleResultsFound"
            /\ execute_scheduled_deactivation(DB, a, now).result = "False"
            /\ execute_scheduled_deactivation(DB, a, now).db.actions[a].status = FAILED

\* C12: when the store fails (transaction or connection failure) while the
\* sweep executes a due action, the action is left pending, not marked failed,
\* so that the next sweep tries it again.
C12_StoreFailureLeavesPending ==
    \A a \in get_overdue_actions(DB, now), recovers \in BOOLEAN :
        \A fault \in StoreFaults \ {"none"} :
            LET exec == execute_under_store_fault(DB, a, now, fault, recovers)
            IN  exec.result # "True" => exec.db.actions[a].status = PENDING

C14_AtMostOneSweepRunning ==
    /\ Len(scheduler.sweeps) <= 1
    /\ scheduler.state # "running" => scheduler.sweeps = <<>>

\* C14 witness: the job fired while a sweep was running with actions still to
\* execute, and that firing was skipped.
C14_Witness ==
    /\ scheduler.skipped
    /\ Len(scheduler.sweeps) = 1
    /\ scheduler.sweeps[1] # <<>>

\* C15: schedule_user_deactivation(u, t) followed immediately by
\* cancel_scheduled_deactivation(u) leaves u active with the scheduling
\* columns cleared, the action the schedule created cancelled, and exactly two
\* new ledger rows: deactivated_scheduled, then schedule_cancelled.
C15_ScheduleThenCancel ==
    \A u \in DOMAIN users, scheduled_for \in Times :
        \A performed_by_id \in Actors, reason \in Reasons :
            LET first == schedule_user_deactivation(
                             DB, u, scheduled_for, performed_by_id, reason, now)
                second == cancel_scheduled_deactivation(
                              first.db, u, performed_by_id, reason)
                created == Len(actions) + 1
                n == Len(history)
            IN  first.result = "ok" =>
                    /\ second.result = "ok"
                    /\ second.db.users[u].status = ACTIVE
                    /\ second.db.users[u].scheduled_deactivation_at = None
                    /\ second.db.users[u].scheduled_deactivation_reason = NoneText
                    /\ second.db.users[u].scheduled_deactivation_by_id = None
                    /\ DOMAIN second.db.actions = 1..created
                    /\ second.db.actions[created].user_id = u
                    /\ second.db.actions[created].scheduled_for = scheduled_for
                    /\ second.db.actions[created].status = CANCELLED
                    /\ Len(second.db.history) = n + 2
                    /\ SubSeq(second.db.history, 1, n) = history
                    /\ second.db.history[n + 1].user_id = u
                    /\ second.db.history[n + 1].action_type = DEACTIVATED_SCHEDULED
                    /\ second.db.history[n + 2].user_id = u
                    /\ second.db.history[n + 2].action_type = SCHEDULE_CANCELLED

\* C15 witness: the last two ledger rows are the deactivated_scheduled and the
\* schedule_cancelled row of one user, who is active, and the last action, the
\* user's, is cancelled.
C15_Witness ==
    /\ Len(history) >= 2
    /\ actions # <<>>
    /\ LET n == Len(history)
           u == history[n].user_id
       IN  /\ history[n - 1].user_id = u
           /\ history[n - 1].action_type = DEACTIVATED_SCHEDULED
           /\ history[n].action_type = SCHEDULE_CANCELLED
           /\ users[u].status = ACTIVE
           /\ actions[Len(actions)].user_id = u
           /\ actions[Len(actions)].status = CANCELLED
           /\ actions[Len(actions)].scheduled_for = history[n - 1].scheduled_left_at

\* C16: schedule_user_deactivation(U, T1) followed by
\* schedule_user_deactivation(U, T2) with T2 different from T1 (both in the
\* future) leaves the first call's action cancelled, the second call's action
\* the user's only pending one, and U.scheduled_deactivation_at = T2.
C16_RescheduleReplaces ==
    \A u \in DOMAIN users, T1 \in Times, T2 \in Times :
        \A performed_by_id \in Actors, reason \in Reasons :
            LET first == schedule_user_deactivation(
                             DB, u, T1, performed_by_id, reason, now)
                second == schedule_user_deactivation(
                              first.db, u, T2, performed_by_id, reason, now)
                a1 == Len(actions) + 1
                a2 == Len(actions) + 2
            IN  (first.result = "ok" /\ T2 # T1 /\ T2 > now) =>
                    /\ second.result = "ok"
                    /\ DOMAIN second.db.actions = 1..a2
                    /\ second.db.actions[a1].scheduled_for = T1
                    /\ second.db.actions[a1].status = CANCELLED
                    /\ second.db.actions[a2].scheduled_for = T2
                    /\ second.db.actions[a2].status = PENDING
                    /\ PendingActionsOf(second.db, u) = {a2}
                    /\ second.db.users[u].status = SCHEDULED_DEACTIVATION
                    /\ second.db.users[u].scheduled_deactivation_at = T2

\* C16 witness: a user scheduled for T2 whose last two actions are a cancelled
\* one for another time T1 and the pending one for T2, with the two
\* deactivated_scheduled rows last in the ledger.
C16_Witness ==
    /\ Len(actions) >= 2
    /\ Len(history) >= 2
    /\ LET a2 == Len(actions)
           a1 == a2 - 1
           n == Len(history)
           u == actions[a2].user_id
       IN  /\ actions[a1].user_id = u
           /\ actions[a1].status = CANCELLED
           /\ actions[a2].status = PENDING
           /\ actions[a1].scheduled_for # actions[a2].scheduled_for
           /\ users[u].scheduled_deactivation_at = actions[a2].scheduled_for
           /\ history[n - 1].user_id = u /\ history[n].user_id = u
           /\ history[n - 1].action_type = DEACTIVATED_SCHEDULED
           /\ history[n - 1].scheduled_left_at = actions[a1].scheduled_for
           /\ history[n].action_type = DEACTIVATED_SCHEDULED
           /\ history[n].scheduled_left_at = actions[a2].scheduled_for

\* C17: schedule_user_deactivation is rejected (400, nothing written) whenever
\* scheduled_for <= now, scheduled_for = now included, and for a user who is
\* not inactive it is accepted whenever scheduled_for > now: the user becomes
\* scheduled_deactivation for that time and a pending action for it is added.
C17_ScheduleOnlyInFuture ==
    \A u \in DOMAIN users, scheduled_for \in Times :
        \A performed_by_id \in Actors, reason \in Reasons :
            LET out == schedule_user_deactivation(
                           DB, u, scheduled_for, performed_by_id, reason, now)
                created == Len(actions) + 1
            IN  /\ scheduled_for <= now =>
                    /\ out.result = "400"
                    /\ out.db = DB
                /\ (scheduled_for > now /\ users[u].status # INACTIVE) =>
                    /\ out.result = "ok"
                    /\ out.db.users[u].status = SCHEDULED_DEACTIVATION
                    /\ out.db.users[u].scheduled_deactivation_at = scheduled_for
                    /\ DOMAIN out.db.actions = 1..created
                    /\ out.db.actions[created].status = PENDING
                    /\ out.db.actions[created].scheduled_for = scheduled_for

\* C17 witness: the clock has advanced and a user is not inactive: a schedule
\* for an earlier instant and one for the current instant are rejected, one
\* for the next instant is accepted.
C17_Witness ==
    /\ now > 0 /\ now < MaxTime
    /\ \E u \in DOMAIN users :
        /\ users[u].status # INACTIVE
        /\ schedule_user_deactivation(
               DB, u, now - 1, 100, "contract ended", now).result = "400"
        /\ schedule_user_deactivation(
               DB, u, now, 100, "contract ended", now).result = "400"
        /\ schedule_user_deactivation(
               DB, u, now + 1, 100, "contract ended", now).result = "ok"

\* C18: in every reachable state, concurrent requests included, a user's
\* current_left_at is not null if and only if the user's status is inactive.
C18_LeftAtIffInactive ==
    \A u \in DOMAIN users :
        users[u].current_left_at # None <=> users[u].status = INACTIVE

\* C19: reactivate_user on an inactive user sets status = active,
\* current_joined_at = now and current_left_at = null, and adds exactly one
\* ledger row, a reactivated row with joined_at = now and left_at = null,
\* which is then the user's only open row.
C19_ReactivateOpensOnlyPeriod ==
    \A u \in DOMAIN users, performed_by_id \in Actors, reason \in Reasons :
        users[u].status = INACTIVE =>
            LET out == reactivate_user(DB, u, performed_by_id, reason, now)
                new == Len(history) + 1
            IN  /\ out.result = "ok"
                /\ out.db.users[u].status = ACTIVE
                /\ out.db.users[u].current_joined_at = now
                /\ out.db.users[u].current_left_at = None
                /\ Len(out.db.history) = new
                /\ SubSeq(out.db.history, 1, Len(history)) = history
                /\ out.db.history[new].user_id = u
                /\ out.db.history[new].action_type = REACTIVATED
                /\ out.db.history[new].joined_at = now
                /\ out.db.history[new].left_at = None
                /\ OpenPeriodsOf(out.db, u) = {new}

\* The timestamps the call wrote: the clock columns of the user row that
\* differ from the row before, left_at and actual_left_at of the periods it
\* closed, the clock columns of the ledger rows it added whose action type
\* takes them from the clock, and executed_at of the actions it executed.
\* (joined_at of a deactivation or schedule row is copied from the user row.)
WrittenTimestamps(out) ==
    LET closed == {h \in DOMAIN history :
                      history[h].left_at = None /\ out.db.history[h].left_at # None}
        added == NewEntries(history, out.db.history)
        done == {a \in DOMAIN actions :
                    actions[a].executed_at = None
                    /\ out.db.actions[a].executed_at # None}
    IN  UNION {
          {out.db.users[u].current_joined_at : u \in {v \in DOMAIN users :
              out.db.users[v].current_joined_at # users[v].current_joined_at}},
          {out.db.users[u].current_left_at : u \in {v \in DOMAIN users :
              out.db.users[v].current_left_at # users[v].current_left_at}},
          {out.db.history[h].left_at : h \in closed},
          {out.db.history[h].actual_left_at : h \in closed},
          {out.db.history[h].joined_at : h \in {g \in added :
              out.db.history[g].action_type \in {ACTIVATED, REACTIVATED}}},
          {out.db.history[h].left_at : h \in added},
          {out.db.history[h].actual_left_at : h \in added},
          {out.db.actions[a].executed_at : a \in done}
        } \ {None}

\* C20: every mutating operation of the service reads the clock once: all the
\* timestamps one call writes are the same instant, also when the clock
\* advances while the call runs.
C20_OneClockReadingPerOperation ==
    /\ \A u \in DOMAIN users, performed_by_id \in Actors, reason \in Reasons :
        /\ \A t2 \in LaterReadings(now) :
            Cardinality(WrittenTimestamps(create_user_activation(
                DB, u, performed_by_id, reason, now, t2))) <= 1
        /\ Cardinality(WrittenTimestamps(deactivate_user_immediately(
                DB, u, performed_by_id, reason, now))) <= 1
        /\ Cardinality(WrittenTimestamps(reactivate_user(
                DB, u, performed_by_id, reason, now))) <= 1
    /\ \A a \in DOMAIN actions :
        Cardinality(WrittenTimestamps(
            execute_scheduled_deactivation(DB, a, now))) <= 1

\* C21: the ledger is append-only: no step of any operation, concurrent
\* requests included, deletes a row, and the only change to an existing row
\* is setting left_at and actual_left_at of a row whose left_at was null; a
\* row whose left_at is set never changes.
C21_LedgerAppendOnly ==
    [][\A h \in DOMAIN history :
         /\ h \in DOMAIN history'
         /\ \/ history'[h] = history[h]
            \/ /\ history[h].left_at = None
               /\ history'[h].left_at # None
               /\ history'[h].actual_left_at # None
               /\ [history'[h] EXCEPT !.left_at = None,
                                      !.actual_left_at = history[h].actual_left_at]
                    = history[h]
      ]_vars

\* C22: every ledger row whose left_at is set has left_at >= joined_at, after
\* any sequence of operations under a clock that never goes back.
C22_LeftAtNotBeforeJoinedAt ==
    \A h \in DOMAIN history :
        history[h].left_at # None => history[h].left_at >= history[h].joined_at

\* C22 witness: a period that an activation opened at a second, later reading
\* of the clock has been closed, and a deactivation row written after the
\* clock advanced is in the ledger.
C22_Witness ==
    /\ \E h \in DOMAIN history :
        /\ history[h].action_type = ACTIVATED
        /\ history[h].left_at # None
        /\ history[h].joined_at > 0
    /\ \E h \in DOMAIN history :
        /\ history[h].action_type \in {DEACTIVATED_IMMEDIATE, AUTO_DEACTIVATED}
        /\ history[h].left_at > history[h].joined_at

\* The definition of overdue: status = pending and scheduled_for <= now.
Overdue(action, t) == action.status = PENDING /\ action.scheduled_for <= t

\* C23: an action is overdue exactly when its status is pending and
\* scheduled_for <= now: get_overdue_actions, the overdue_actions count of
\* get_system_activity_stats and ScheduledUserAction.is_overdue all agree with
\* that definition for every action at every time, scheduled_for = now
\* included.
C23_OverdueDefinitionsAgree ==
    /\ \A a \in DOMAIN actions :
        /\ a \in get_overdue_actions(DB, now) <=> Overdue(actions[a], now)
        /\ is_overdue(actions[a], now) <=> Overdue(actions[a], now)
    /\ overdue_actions_count(DB, now)
         = Cardinality({a \in DOMAIN actions : Overdue(actions[a], now)})

\* The limits a caller passes: 0 (no limit) or a number of rows.
Limits == 0..MaxHistory

\* C24: get_user_activity_history returns a user's ledger rows newest first:
\* a row written by a later operation never comes after a row written by an
\* earlier one (rows are numbered in the order written), and with limit n > 0
\* the result is the n most recently written rows.
C24_HistoryNewestFirst ==
    \A u \in DOMAIN users, limit \in Limits :
        \A result \in get_user_activity_history(DB, u, limit) :
            LET rows == {h \in DOMAIN history : history[h].user_id = u}
            IN  /\ \A i, j \in DOMAIN result : i < j => result[i] > result[j]
                /\ limit > 0 =>
                    \A h \in rows :
                        (\E i \in DOMAIN result : result[i] = h)
                        <=> Cardinality({g \in rows : g > h}) < limit

\* C25: shutdown_scheduler called while a sweep is in flight returns only
\* after that sweep has finished: in no step does the scheduler go from
\* running to shut down while a sweep still has actions of its list to
\* execute.
C25_ShutdownWaitsForSweep ==
    [][(scheduler.state = "running" /\ scheduler'.state # "running")
          => \A i \in DOMAIN scheduler.sweeps : scheduler.sweeps[i] = <<>>
      ]_vars

\* C26: in every reachable state, a user whose status is
\* scheduled_deactivation has exactly one pending deactivate action, and that
\* action's scheduled_for is the user's scheduled_deactivation_at.
C26_ScheduledUserHasPendingAction ==
    \A u \in DOMAIN users :
        users[u].status = SCHEDULED_DEACTIVATION =>
            /\ Cardinality(PendingActionsOf(DB, u)) = 1
            /\ \A a \in PendingActionsOf(DB, u) :
                actions[a].scheduled_for = users[u].scheduled_deactivation_at

\* C27: in every reachable state, a pending scheduled action exists only for
\* a user whose status is scheduled_deactivation: no active or inactive user
\* has a pending action.
C27_PendingOnlyForScheduledUser ==
    \A a \in DOMAIN actions :
        actions[a].status = PENDING =>
            /\ actions[a].user_id \in DOMAIN users
            /\ users[actions[a].user_id].status = SCHEDULED_DEACTIVATION

\* C28: the sweeper never executes an action before it is due: every action
\* with status executed has executed_at >= scheduled_for, and a sweep leaves
\* every pending action with scheduled_for > now as it was.
C28_NeverExecutedEarly ==
    /\ \A a \in DOMAIN actions :
        actions[a].status = EXECUTED =>
            actions[a].executed_at >= actions[a].scheduled_for
    /\ \A overdue_actions \in Orders(get_overdue_actions(DB, now)) :
        LET after == sweep_loop(DB, overdue_actions, now)
        IN  \A a \in DOMAIN actions :
                (actions[a].status = PENDING /\ actions[a].scheduled_for > now)
                    => after.actions[a] = actions[a]

\* C28 witness: a sweep finds one action due, executes it, and another
\* action is pending for a later time.
C28_Witness ==
    \E a \in get_overdue_actions(DB, now), b \in DOMAIN actions :
        /\ actions[b].status = PENDING
        /\ actions[b].scheduled_for > now
        /\ execute_scheduled_deactivation(DB, a, now).result = "True"

\* The call left everything of user v as it was: v's row, v's ledger rows (and
\* no new one), v's scheduled actions (and no new one).
UntouchedBy(out, v) ==
    /\ out.db.users[v] = users[v]
    /\ \A h \in DOMAIN out.db.history :
        out.db.history[h].user_id = v =>
            h \in DOMAIN history /\ out.db.history[h] = history[h]
    /\ \A h \in DOMAIN history :
        history[h].user_id = v =>
            h \in DOMAIN out.db.history /\ out.db.history[h] = history[h]
    /\ \A a \in DOMAIN out.db.actions :
        out.db.actions[a].user_id = v =>
            a \in DOMAIN actions /\ out.db.actions[a] = actions[a]
    /\ \A a \in DOMAIN actions :
        actions[a].user_id = v =>
            a \in DOMAIN out.db.actions /\ out.db.actions[a] = actions[a]

\* C29: an operation on user U leaves every other user unchanged: the row,
\* the ledger rows and the scheduled actions of any user V # U are the same
\* before and after deactivate_user_immediately, schedule_user_deactivation,
\* cancel_scheduled_deactivation, reactivate_user or
\* execute_scheduled_deactivation applied to U.
C29_OtherUsersUnchanged ==
    /\ \A u \in DOMAIN users, v \in DOMAIN users :
        \A performed_by_id \in Actors, reason \in Reasons :
            u # v =>
                /\ UntouchedBy(deactivate_user_immediately(
                       DB, u, performed_by_id, reason, now), v)
                /\ UntouchedBy(cancel_scheduled_deactivation(
                       DB, u, performed_by_id, reason), v)
                /\ UntouchedBy(reactivate_user(
                       DB, u, performed_by_id, reason, now), v)
                /\ \A scheduled_for \in Times :
                    UntouchedBy(schedule_user_deactivation(
                        DB, u, scheduled_for, performed_by_id, reason, now), v)
    /\ \A a \in DOMAIN actions, v \in DOMAIN users :
        actions[a].user_id # v =>
            UntouchedBy(execute_scheduled_deactivation(DB, a, now), v)

\* C29 witness: two users, each scheduled with a pending action and an open
\* ledger row; the action of one is due and its execution succeeds, and a
\* deactivation of that user succeeds too.
C29_Witness ==
    \E a \in get_overdue_actions(DB, now), v \in DOMAIN users :
        LET u == actions[a].user_id
        IN  /\ u # v
            /\ PendingActionsOf(DB, v) # {}
            /\ OpenPeriodsOf(DB, v) # {}
            /\ execute_scheduled_deactivation(DB, a, now).result = "True"
            /\ deactivate_user_immediately(
                   DB, u, 100, "contract ended", now).result = "ok"


\* C30: after any sequence of start_scheduler and shutdown_scheduler calls
\* there is at most one scheduler instance, with one sweep job:
\* start_scheduler while started returns the existing instance and adds no
\* job, shutdown_scheduler while not started does nothing, and
\* get_scheduler_status reports running exactly when the last call that did
\* not return early was start_scheduler.
C30_AtMostOneSchedulerOneJob ==
    /\ scheduler.instances <= 1
    /\ scheduler.jobs <= 1
    /\ get_scheduler_status(scheduler).running <=> scheduler.last_call = "start"
    /\ get_scheduler_status(scheduler).running
          => /\ get_scheduler_status(scheduler).jobs = 1
             /\ scheduler.instances = 1
    /\ scheduler.state # "None" => start_scheduler(scheduler) = scheduler
    /\ scheduler.state = "None" => shutdown_scheduler(scheduler) = scheduler

\* The scheduler was started and shut down: another shutdown does nothing, and
\* it can be started again, with one instance and one job.
C30_Witness ==
    /\ scheduler.last_call = "shutdown"
    /\ ~get_scheduler_status(scheduler).running
    /\ shutdown_scheduler(scheduler) = scheduler
    /\ start_scheduler(scheduler).instances = 1
    /\ get_scheduler_status(start_scheduler(scheduler)) = [running |-> TRUE, jobs |-> 1]
    /\ actions # <<>>

====
